---- MODULE Spec2Model ----
(***************************************************************************)
(* GearChain (src/chain_utils.py): a roller chain on a spur gear.          *)
(*                                                                         *)
(* Angles are counted in units of 1/FullTurn of a turn (30 degrees), so    *)
(* that the pitch angle 2*pi/z and its half are whole numbers of units for *)
(* every tooth count of Teeth.  Coordinates are exact numbers of the form  *)
(* (a + b*sqrt(3))/2, written <<a, b>>: the sines and cosines of all       *)
(* multiples of 30 degrees are of that form, so positions, distances and   *)
(* the link-length comparison are computed without rounding.               *)
(***************************************************************************)
EXTENDS Integers, Sequences, FiniteSets, TLC

VARIABLES
    gear,         \* the gear object: z, m, rp, pitch, pitch_angle, angle, center
    phase,        \* "new", "raised", "built", "anim", "pass", "frame", "asked"
    done,         \* number of sub-groups already updated in the running pass
    err,          \* "none", "ValueError", "AssertionError"
    z,            \* the tooth count captured by _build_geometry
    roll_radius,  \* self.roll_radius
    link_colors,  \* self.link_colors
    rolls,        \* self._rolls:  n -> [center, nth, radius]
    links,        \* self._links:  i -> [start, end, color, ra, rb]
    pins,         \* self._pins:   n -> [center, r]
    submobjects,  \* the composite's own children, in order
    shown,        \* the gear as it was when the rollers were last positioned
    req           \* the last direct request to chain_pos: [nth, raised, value]

vars == <<gear, phase, done, err, z, roll_radius, link_colors, rolls, links,
          pins, submobjects, shown, req>>

-----------------------------------------------------------------------------
(* Bounds and input sets *)

FullTurn == 12

\* largest multiple of ShiftVector the gear is moved away from the origin
MaxShift == 1

Teeth == {2, 3, 6}

Radii == {1, 2}

Pitches == {2, 4}

Angles == 0 .. (FullTurn - 1)

ShiftVector == <<1, 0, 2>>

None == "None"

\* roll_radius arguments: None, or a radius in quarter units
RollRadiusArgs == {<<None, 0>>, <<"num", 0>>, <<"num", 1>>}

GRAY_B == "GRAY_B"

GRAY_C == "GRAY_C"

ColorPairs == {<<GRAY_C, GRAY_B>>, <<GRAY_C, GRAY_C>>}

-----------------------------------------------------------------------------
(* Exact arithmetic on numbers (a + b*sqrt(3))/2 *)

RInt(c) == <<2 * c, 0>>

RAdd(u, v) == <<u[1] + v[1], u[2] + v[2]>>

RSub(u, v) == <<u[1] - v[1], u[2] - v[2]>>

RScale(k, u) == <<k * u[1], k * u[2]>>

\* the square of (a + b*sqrt(3))/2, as <<p, q>> meaning (p + q*sqrt(3))/4
RSquare4(u) == <<u[1] * u[1] + 3 * u[2] * u[2], 2 * u[1] * u[2]>>

\* u[1] + u[2]*sqrt(3) > 0
RPositive(u) ==
    CASE u[1] >= 0 /\ u[2] >= 0 -> u[1] + u[2] > 0
      [] u[1] <= 0 /\ u[2] <= 0 -> FALSE
      [] u[1] > 0 /\ u[2] < 0 -> u[1] * u[1] > 3 * u[2] * u[2]
      [] OTHER -> 3 * u[2] * u[2] > u[1] * u[1]

\* 2*cos of k*30 degrees, k = 0..11
CosTable ==
    << <<2, 0>>, <<0, 1>>, <<1, 0>>, <<0, 0>>, <<-1, 0>>, <<0, -1>>,
       <<-2, 0>>, <<0, -1>>, <<-1, 0>>, <<0, 0>>, <<1, 0>>, <<0, 1>> >>

Cos(a) == CosTable[(a % FullTurn) + 1]

Sin(a) == Cos(a - (FullTurn \div 4))

-----------------------------------------------------------------------------
(* The gear: any object with the attributes the chain reads *)

Centers == {<<k * ShiftVector[1], k * ShiftVector[2], k * ShiftVector[3]>> : k \in 0 .. MaxShift}

\* a gear with tooth count t, pitch radius r and pitch p, at rest at the origin
Gear(t, r, p) ==
    [z |-> t, m |-> 1, rp |-> r, pitch |-> p, pitch_angle |-> FullTurn \div t,
     angle |-> 0, center |-> <<0, 0, 0>>]

Gears == {Gear(t, r, p) : t \in Teeth, r \in Radii, p \in Pitches}

\* gear.get_center() as exact coordinates
get_center(g) == <<RInt(g.center[1]), RInt(g.center[2]), RInt(g.center[3])>>

\* the point c + r*(cos a, sin a, 0)
OnCircle(c, r, a) ==
    <<RAdd(c[1], RScale(r, Cos(a))), RAdd(c[2], RScale(r, Sin(a))), c[3]>>

-----------------------------------------------------------------------------
(* _build_geometry and the closures it creates; g and zc are the gear and *)
(* the tooth count z that the closure chain_pos has captured              *)

\* 0.5 * a, for the pitch angles of Teeth (all even numbers of units)
Half(a) == a \div 2

\* variant: the offset is taken without the gear's rotation
chain_pos_fixed(g, zc, nth) ==
    IF nth < 0 \/ nth >= zc
    THEN [raised |-> TRUE, value |-> <<>>]
    ELSE [raised |-> FALSE,
          value |-> OnCircle(get_center(g), g.rp,
                             nth * g.pitch_angle + Half(g.pitch_angle))]

\* variant: the rollers sit on the teeth (no half pitch-angle offset)
chain_pos_on_tooth(g, zc, nth) ==
    IF nth < 0 \/ nth >= zc
    THEN [raised |-> TRUE, value |-> <<>>]
    ELSE [raised |-> FALSE,
          value |-> OnCircle(get_center(g), g.rp, nth * g.pitch_angle + g.angle)]

\* variant: consecutive rollers are half a pitch angle apart
chain_pos_half_step(g, zc, nth) ==
    IF nth < 0 \/ nth >= zc
    THEN [raised |-> TRUE, value |-> <<>>]
    ELSE [raised |-> FALSE,
          value |-> OnCircle(get_center(g), g.rp,
                             nth * Half(g.pitch_angle) + g.angle + Half(g.pitch_angle))]

\* variant: the index z itself is accepted
chain_pos_off_by_one(g, zc, nth) ==
    IF nth < 0 \/ nth > zc
    THEN [raised |-> TRUE, value |-> <<>>]
    ELSE [raised |-> FALSE,
          value |-> OnCircle(get_center(g), g.rp,
                             nth * g.pitch_angle + g.angle + Half(g.pitch_angle))]

\* variant: the index is checked against the gear's current tooth count
chain_pos_live_z(g, zc, nth) ==
    IF nth < 0 \/ nth >= g.z
    THEN [raised |-> TRUE, value |-> <<>>]
    ELSE [raised |-> FALSE,
          value |-> OnCircle(get_center(g), g.rp,
                             nth * g.pitch_angle + g.angle + Half(g.pitch_angle))]

chain_pos(g, zc, nth) ==
    IF nth < 0 \/ nth >= zc
    THEN [raised |-> TRUE, value |-> <<>>]
    ELSE LET pitch_angle == g.pitch_angle
             offset == g.angle + Half(pitch_angle)
         IN  [raised |-> FALSE,
              value |-> OnCircle(get_center(g), g.rp, nth * pitch_angle + offset)]

\* the rollers: circles of the given radius, each moved to chain_pos(n) and
\* remembering its own n
BuildRolls(g, zc, radius) ==
    [n \in 0 .. (zc - 1) |->
        [center |-> chain_pos(g, zc, n).value, nth |-> n, radius |-> radius]]

\* variant: the last link is not led back to roller 0
LinkEnds_open(i, zc) == <<i, IF i + 1 < zc THEN i + 1 ELSE i>>

\* the two rollers link i is built between
LinkEnds(i, zc) == <<i, (i + 1) % zc>>

\* variant: the two colours are taken in the other order
LinkColor_swapped(colors, i) == colors[((i + 1) % 2) + 1]

\* the colour of link i
LinkColor(colors, i) == colors[(i % 2) + 1]

BuildLinks(rs, zc, colors) ==
    [i \in 0 .. (zc - 1) |->
        [start |-> rs[LinkEnds(i, zc)[1]].center,
         end   |-> rs[LinkEnds(i, zc)[2]].center,
         color |-> LinkColor(colors, i),
         ra    |-> LinkEnds(i, zc)[1],
         rb    |-> LinkEnds(i, zc)[2]]]

\* 4 * link.get_length()^2, as p + q*sqrt(3)
Length4Sq(l) ==
    LET d(k) == RSquare4(RSub(l.end[k], l.start[k]))
    IN  <<d(1)[1] + d(2)[1] + d(3)[1], d(1)[2] + d(2)[2] + d(3)[2]>>

\* link.get_length() < p
ShorterThan(l, p) == RPositive(<<4 * p * p - Length4Sq(l)[1], - Length4Sq(l)[2]>>)

\* variant: a link exactly as long as the pitch is accepted
LinkAssert_le(l, g) ==
    ~ RPositive(<<Length4Sq(l)[1] - 4 * g.pitch * g.pitch, Length4Sq(l)[2]>>)

\* the assert of the link loop
LinkAssert(l, g) == ShorterThan(l, g.pitch)

BuildPins(rs, zc) ==
    [n \in 0 .. (zc - 1) |-> [center |-> rs[n].center, r |-> n]]

\* self.roll_radius = roll_radius or gear.m * PI / 4.0
RollRadius(arg, g) ==
    IF arg[1] = None \/ arg[2] = 0 THEN <<"m*pi/4", g.m>> ELSE arg

\* VGroup.add: children already present keep their place, new ones are appended
AddAll(subs, new) ==
    subs \o SelectSeq(new, LAMBDA x : \A k \in 1 .. Len(subs) : subs[k] # x)

\* variant: the links are added ahead of the rollers
Parts_links_first == <<"links", "rolls", "pins">>

Parts == <<"rolls", "links", "pins">>

-----------------------------------------------------------------------------
\* no chain has been constructed yet
NoChain ==
    /\ phase = "new"
    /\ done = 0
    /\ err = "none"
    /\ z = 0
    /\ roll_radius = <<None, 0>>
    /\ link_colors = <<>>
    /\ rolls = <<>>
    /\ links = <<>>
    /\ pins = <<>>
    /\ submobjects = <<>>
    /\ shown = gear
    /\ req = <<>>

Init == gear \in Gears /\ NoChain

\* variant: the gear is turned back to its rest position when the chain takes it
gear_ref_reset(g) == [g EXCEPT !.angle = 0]

\* self.gear = gear: the chain keeps the gear itself, not a copy
gear_ref(g) == g

\* GearChain(gear, roll_radius=.., alternate_link_colors=.., add_subobjects=..)
GearChain_init(rr, colors, add) ==
    /\ phase = "new"
    /\ LET zc == gear.z
           rs == BuildRolls(gear, zc, RollRadius(rr, gear))
           ls == BuildLinks(rs, zc, colors)
           ok == \A i \in 0 .. (zc - 1) : LinkAssert(ls[i], gear)
       IN  /\ z' = zc
           /\ roll_radius' = RollRadius(rr, gear)
           /\ link_colors' = colors
           /\ rolls' = rs
           /\ links' = IF ok THEN ls ELSE <<>>
           /\ pins' = IF ok THEN BuildPins(rs, zc) ELSE <<>>
           /\ submobjects' = IF ok /\ add THEN AddAll(<<>>, Parts) ELSE <<>>
           /\ phase' = IF ok THEN "built" ELSE "raised"
           /\ err' = IF ok THEN "none" ELSE "AssertionError"
    /\ gear' = gear_ref(gear)
    /\ shown' = gear
    /\ UNCHANGED <<done, req>>

\* GearChain.add_subobjects()
add_subobjects ==
    /\ phase \in {"built", "anim", "frame"}
    /\ submobjects' = AddAll(submobjects, Parts)
    /\ UNCHANGED <<gear, phase, done, err, z, roll_radius, link_colors, rolls,
                   links, pins, shown, req>>

-----------------------------------------------------------------------------
(* The gear is animated between two update passes *)

Animated == IF phase = "new" THEN "new" ELSE "anim"

\* Rotate(gear, d)
Rotate(d) ==
    /\ phase \in {"new", "built", "anim", "frame"}
    /\ gear' = [gear EXCEPT !.angle = (@ + d) % FullTurn]
    /\ phase' = Animated
    /\ UNCHANGED <<done, err, z, roll_radius, link_colors, rolls, links, pins,
                   submobjects, shown, req>>

\* gear.shift(s * ShiftVector)
Shift(s) ==
    /\ phase \in {"new", "built", "anim", "frame"}
    /\ LET c == <<gear.center[1] + s * ShiftVector[1],
                  gear.center[2] + s * ShiftVector[2],
                  gear.center[3] + s * ShiftVector[3]>>
       IN  /\ c \in Centers
           /\ gear' = [gear EXCEPT !.center = c]
    /\ phase' = Animated
    /\ UNCHANGED <<done, err, z, roll_radius, link_colors, rolls, links, pins,
                   submobjects, shown, req>>

-----------------------------------------------------------------------------
(* One update pass of the composite: its children are updated in order *)

InPass(part) ==
    /\ phase \in {"built", "anim", "frame", "pass"}
    /\ done < Len(submobjects)
    /\ submobjects[done + 1] = part

EndOfStep ==
    /\ done' = IF done + 1 = Len(submobjects) THEN 0 ELSE done + 1
    /\ phase' = IF done + 1 = Len(submobjects) THEN "frame" ELSE "pass"

\* variant: the updater works on the gear as it was at the last placement
RollUpdater_stale(r) == [r EXCEPT !.center = chain_pos(shown, z, r.nth).value]

\* roller updater: m.move_to(chain_pos(nth))
RollUpdater(r) == [r EXCEPT !.center = chain_pos(gear, z, r.nth).value]

\* variant: both ends are put on the first roller
LinkUpdater_one_roller(l) ==
    [l EXCEPT !.start = rolls[l.ra].center, !.end = rolls[l.ra].center]

\* link updater: m.put_start_and_end_on(ra.get_center(), rb.get_center())
LinkUpdater(l) == [l EXCEPT !.start = rolls[l.ra].center, !.end = rolls[l.rb].center]

\* variant: the pin follows the next roller
PinUpdater_next(p) == [p EXCEPT !.center = rolls[(p.r + 1) % z].center]

\* pin updater: m.move_to(r.get_center())
PinUpdater(p) == [p EXCEPT !.center = rolls[p.r].center]

UpdateRolls ==
    /\ InPass("rolls")
    /\ LET bad == {n \in DOMAIN rolls : chain_pos(gear, z, rolls[n].nth).raised}
       IN  IF bad = {}
           THEN /\ rolls' = [n \in DOMAIN rolls |-> RollUpdater(rolls[n])]
                /\ EndOfStep
                /\ err' = err
           ELSE \* the first failing updater ends the pass with the exception
                /\ rolls' = [n \in DOMAIN rolls |->
                               IF \A b \in bad : n < b THEN RollUpdater(rolls[n]) ELSE rolls[n]]
                /\ phase' = "raised"
                /\ done' = 0
                /\ err' = "ValueError"
    /\ shown' = gear
    /\ UNCHANGED <<gear, z, roll_radius, link_colors, links, pins, submobjects, req>>

\* variant: the updater repeats the assert of the link loop
LinkUpdaterRaises_checked(l) == ~ LinkAssert(l, gear)

\* the link updater only repositions the link: the assert stands after
\* add_updater, in the loop of _build_geometry, not in the updater
LinkUpdaterRaises(l) == FALSE

UpdateLinks ==
    /\ InPass("links")
    /\ links' = [i \in DOMAIN links |-> LinkUpdater(links[i])]
    /\ IF \E i \in DOMAIN links : LinkUpdaterRaises(LinkUpdater(links[i]))
       THEN phase' = "raised" /\ done' = 0 /\ err' = "AssertionError"
       ELSE EndOfStep /\ err' = err
    /\ UNCHANGED <<gear, z, roll_radius, link_colors, rolls, pins, submobjects,
                   shown, req>>

UpdatePins ==
    /\ InPass("pins")
    /\ pins' = [n \in DOMAIN pins |-> PinUpdater(pins[n])]
    /\ EndOfStep
    /\ UNCHANGED <<gear, err, z, roll_radius, link_colors, rolls, links, submobjects,
                   shown, req>>

-----------------------------------------------------------------------------
Next ==
    \/ \E rr \in RollRadiusArgs, colors \in ColorPairs, add \in BOOLEAN :
          GearChain_init(rr, colors, add)
    \/ add_subobjects
    \/ \E d \in 1 .. (FullTurn - 1) : Rotate(d)
    \/ \E s \in {-1, 1} : Shift(s)
    \/ UpdateRolls
    \/ UpdateLinks
    \/ UpdatePins

Spec == Init /\ [][Next]_vars

-----------------------------------------------------------------------------
(* The gear's parameters change under the chain (gear_updater of gear_sum) *)

\* the gears gear_updater may turn the gear into
LiveGears == {Gear(2, 1, 4), Gear(2, 2, 4), Gear(3, 2, 4), Gear(6, 2, 4)}

\* gear_updater: the attributes of a new gear are copied onto the gear, which
\* mesh_to then places and turns
gear_updater(newgear, c, a) ==
    /\ phase \in {"built", "anim", "frame"}
    /\ gear' = [gear EXCEPT !.z = newgear.z, !.rp = newgear.rp,
                            !.pitch = newgear.pitch,
                            !.pitch_angle = newgear.pitch_angle,
                            !.center = c, !.angle = a]
    /\ phase' = "anim"
    /\ UNCHANGED <<done, err, z, roll_radius, link_colors, rolls, links, pins,
                   submobjects, shown, req>>

InitLive == Init /\ gear \in LiveGears

NextLive ==
    \/ GearChain_init(<<None, 0>>, <<GRAY_C, GRAY_B>>, TRUE)
    \/ \E d \in 1 .. (FullTurn - 1) : Rotate(d)
    \/ \E s \in {-1, 1} : Shift(s)
    \/ \E g \in LiveGears, c \in Centers, a \in Angles : gear_updater(g, c, a)
    \/ UpdateRolls
    \/ UpdateLinks
    \/ UpdatePins

SpecLive == InitLive /\ [][NextLive]_vars

-----------------------------------------------------------------------------
(* chain_pos asked directly for the position of tooth nth *)

\* how far outside 0 .. z-1 the requested indices go
MaxOutside == 2

InitPos ==
    /\ gear \in {[g EXCEPT !.angle = a, !.center = c] :
                   g \in Gears, a \in Angles, c \in Centers}
    /\ NoChain

Ask(nth) ==
    /\ phase = "new"
    /\ req' = [nth |-> nth] @@ chain_pos(gear, gear.z, nth)
    /\ phase' = "asked"
    /\ z' = gear.z
    /\ UNCHANGED <<gear, done, err, roll_radius, link_colors, rolls, links, pins,
                   submobjects, shown>>

NextPos == \E nth \in (0 - MaxOutside) .. (gear.z - 1 + MaxOutside) : Ask(nth)

SpecPos == InitPos /\ [][NextPos]_vars

-----------------------------------------------------------------------------
(* The public helpers next to construction and the update pass *)

\* variant: get_links hands out the rollers
Returned_rolls_twice(call) ==
    CASE call = "get_rolls" -> "rolls"
      [] call = "get_links" -> "rolls"
      [] call = "get_pins" -> "pins"

\* the collection a getter returns: the group itself, not a copy
Returned(call) ==
    CASE call = "get_rolls" -> "rolls"
      [] call = "get_links" -> "links"
      [] call = "get_pins" -> "pins"

\* the getters return a group and touch nothing
Getter(call) ==
    /\ phase \in {"built", "anim", "frame"}
    /\ req' = [call |-> call, ret |-> Returned(call)]
    /\ UNCHANGED <<gear, phase, done, err, z, roll_radius, link_colors, rolls,
                   links, pins, submobjects, shown>>

get_rolls == Getter("get_rolls")

get_links == Getter("get_links")

get_pins == Getter("get_pins")

NextParts ==
    \/ \E rr \in RollRadiusArgs, colors \in ColorPairs, add \in BOOLEAN :
          GearChain_init(rr, colors, add)
    \/ add_subobjects
    \/ get_rolls
    \/ get_links
    \/ get_pins
    \/ \E d \in 1 .. (FullTurn - 1) : Rotate(d)
    \/ UpdateRolls
    \/ UpdateLinks
    \/ UpdatePins

SpecParts == Init /\ [][NextParts]_vars

-----------------------------------------------------------------------------
(* Properties *)

\* a chain has been constructed
Exists == phase \in {"built", "anim", "pass", "frame"}

\* the chain is as construction or a completed update pass left it
Settled == phase \in {"built", "frame"}

\* the roller after roller i on the ring
Succ(i) == (i + 1) % z

\* p lies at angle a on the circle of radius r about the gear centre of g
AtAngle(p, g, a) == p = OnCircle(get_center(g), g.rp, a)

\* C1: the chain is a closed ring: rollers, links and pins are z each, z the
\* tooth count of the gear, and link i is built between roller i and roller
\* (i+1) mod z, the last link leading back to roller 0
C1_ClosedRing ==
    Exists =>
        /\ z = gear.z
        /\ DOMAIN rolls = 0 .. (z - 1) /\ Cardinality(DOMAIN rolls) = gear.z
        /\ DOMAIN links = 0 .. (z - 1) /\ Cardinality(DOMAIN links) = gear.z
        /\ DOMAIN pins = 0 .. (z - 1) /\ Cardinality(DOMAIN pins) = gear.z
        /\ \A i \in 0 .. (z - 1) :
              /\ rolls[i].nth = i
              /\ links[i].ra = i
              /\ links[i].rb = (IF i = z - 1 THEN 0 ELSE i + 1)

C1_Witness ==
    /\ phase = "frame" /\ z = 3 /\ gear.angle = 5
    /\ links[2].ra = 2 /\ links[2].rb = 0
    /\ links[2].end = rolls[0].center

\* C2: at the end of every update pass the start and end of link i are the
\* current centres of roller i and roller (i+1) mod z
C2_LinksOnRollers ==
    phase = "frame" =>
        \A i \in 0 .. (z - 1) :
            /\ links[i].start = rolls[i].center
            /\ links[i].end = rolls[Succ(i)].center

C2_Witness ==
    /\ phase = "frame" /\ gear.z = 6
    /\ gear.angle = 1 /\ gear.center = ShiftVector
    /\ links[5].start = chain_pos(gear, z, 5).value
    /\ links[5].end = chain_pos(gear, z, 0).value
    /\ links[5].start # links[5].end

\* the step in which the rollers' updaters run
RollersMove == InPass("rolls") /\ done' = done + 1

\* C3: when the rollers' updaters run after the gear was rotated, roller n
\* moves about the gear centre by exactly the rotation applied since the
\* rollers were last placed, and ends at the angle that the gear's current
\* rotation and its own index n give, wherever it was before
C3_RollersFollowRotation ==
    [][ RollersMove /\ gear.pitch_angle = shown.pitch_angle =>
          \A n \in DOMAIN rolls :
             \E a0, a1 \in Angles :
                /\ AtAngle(rolls[n].center, shown, a0)
                /\ AtAngle(rolls'[n].center, gear, a1)
                /\ (a1 - a0) % FullTurn = (gear.angle - shown.angle) % FullTurn
                /\ a1 = (gear.angle + n * gear.pitch_angle
                           + Half(gear.pitch_angle)) % FullTurn ]_vars

\* the rollers have just moved by a rotation of the gear: the pins still mark
\* where they were, on the same circle at another angle
C3_Witness ==
    /\ phase = "pass" /\ done = 1 /\ z = 3
    /\ AtAngle(rolls[1].center, gear, 7)
    /\ AtAngle(pins[1].center, gear, 6)

\* four times the square of the distance between p and q, as u + v*sqrt(3)
Dist4Sq(p, q) ==
    LET d(k) == RSquare4(RSub(p[k], q[k]))
    IN  <<d(1)[1] + d(2)[1] + d(3)[1], d(1)[2] + d(2)[2] + d(3)[2]>>

\* C4: roller i is placed at gearCenter + pitchRadius*(cos t, sin t, 0) with
\* t = rotation + (i + 0.5)*pitchAngle, taken from the gear as it is when the
\* roller is placed: at distance exactly pitchRadius from the gear centre and
\* with the centre's third coordinate, also after the gear was moved or changed
C4_RollerOnPitchCircle ==
    Settled =>
        \A i \in DOMAIN rolls :
            LET t2 == 2 * gear.angle + (2 * i + 1) * gear.pitch_angle
                c  == gear.center
                p  == rolls[i].center
            IN  /\ t2 % 2 = 0
                /\ p[1] = <<2 * c[1] + gear.rp * Cos(t2 \div 2)[1], gear.rp * Cos(t2 \div 2)[2]>>
                /\ p[2] = <<2 * c[2] + gear.rp * Sin(t2 \div 2)[1], gear.rp * Sin(t2 \div 2)[2]>>
                /\ p[3] = <<2 * c[3], 0>>
                /\ Dist4Sq(p, get_center(gear)) = <<4 * gear.rp * gear.rp, 0>>

\* after an update pass: the gear has been moved, turned and given another
\* pitch radius and pitch angle than the chain was built with
C4_Witness ==
    /\ phase = "frame" /\ z = 2
    /\ gear.z = 6 /\ gear.rp = 2 /\ gear.angle = 3 /\ gear.center = ShiftVector
    /\ rolls[1].center = <<RInt(-1), RInt(0), RInt(2)>>

C6_RangeChecked ==
    phase = "asked" =>
        /\ req.raised <=> (req.nth < 0 \/ req.nth >= gear.z)
        /\ req.raised => req.value = <<>>
        /\ ~ req.raised => \E a \in Angles : AtAngle(req.value, gear, a)

C6_Witness ==
    /\ phase = "asked" /\ gear.z = 3 /\ req.nth = 3
    /\ req.raised /\ req.value = <<>>

\* the straight distance between neighbouring rollers of a gear g, 2*rp*sin(pi/z),
\* is at least g.pitch
ChordReachesPitch(g) ==
    LET chord4sq == RSquare4(RScale(2 * g.rp, Sin(Half(g.pitch_angle))))
    IN  ~ RPositive(<<4 * g.pitch * g.pitch - chord4sq[1], - chord4sq[2]>>)

\* C7: construction raises exactly when the straight length of a link is
\* greater than or equal to the gear's pitch, whatever the roller radius
C7_RaisesOnLongLink ==
    phase \in {"built", "raised"} =>
        /\ (phase = "raised") <=> ChordReachesPitch(gear)
        /\ phase = "raised" => err = "AssertionError" /\ links = <<>>
        /\ phase = "built" => err = "none" /\ DOMAIN links = 0 .. (z - 1)

\* a link exactly as long as the pitch
C7_Witness ==
    /\ phase = "raised" /\ err = "AssertionError"
    /\ gear.z = 2 /\ gear.rp = 1 /\ gear.pitch = 2
    /\ roll_radius = <<"num", 1>>
    /\ Dist4Sq(rolls[0].center, rolls[1].center) = <<4 * gear.pitch * gear.pitch, 0>>

\* C8: at construction and at the end of every update pass pin i is exactly
\* at the current centre of roller i, the roller it was made for
C8_PinsOnRollers ==
    Settled =>
        \A i \in 0 .. (z - 1) : pins[i].r = i /\ pins[i].center = rolls[i].center

C8_Witness ==
    /\ phase = "frame" /\ gear.z = 3
    /\ gear.angle = 2 /\ gear.center = ShiftVector
    /\ pins[2].center = chain_pos(gear, z, 2).value
    /\ pins[2].center # pins[0].center

\* a step of the chain: its construction, add_subobjects or an updater
ChainStep ==
    \/ phase = "new" /\ phase' # "new"
    \/ submobjects' # submobjects
    \/ done' # done
    \/ rolls' # rolls \/ links' # links \/ pins' # pins

\* C9: constructing the chain and running its updaters leaves the gear as it
\* is: rotation, centre, tooth count, pitch radius, pitch angle, pitch, module
C9_GearOnlyRead == [][ChainStep => gear' = gear]_vars

\* a chain built on a gear that had been turned and moved, after an update pass
C9_Witness ==
    /\ phase = "frame"
    /\ shown.angle = 7 /\ shown.center = ShiftVector
    /\ gear = shown
    /\ rolls[0].center = chain_pos(gear, z, 0).value

\* link i has alternate_link_colors[0] for even i and [1] for odd i
ColoredByParity ==
    \A i \in 0 .. (z - 1) :
        links[i].color = (IF i % 2 = 0 THEN link_colors[1] ELSE link_colors[2])

\* C10 as stated: colours go by parity, and given two different colours any
\* two links sharing a roller differ in colour, for every tooth count
C10_AsStated ==
    Exists /\ link_colors[1] # link_colors[2] =>
        /\ ColoredByParity
        /\ \A i \in 0 .. (z - 1) : links[i].color # links[Succ(i)].color

\* C10 amended: colours go by parity; given two different colours, links i and
\* i+1 differ for i < z-1, and the links z-1 and 0, which share roller 0,
\* differ when z is even and are both alternate_link_colors[0] when z is odd
C10_ParityColors ==
    Exists =>
        /\ ColoredByParity
        /\ link_colors[1] # link_colors[2] =>
              \A i \in 0 .. (z - 2) : links[i].color # links[i + 1].color
        /\ z % 2 = 0 /\ link_colors[1] # link_colors[2] =>
              links[z - 1].color # links[0].color
        /\ z % 2 = 1 =>
              links[z - 1].color = link_colors[1] /\ links[0].color = link_colors[1]

C10_Witness ==
    /\ phase = "built" /\ z = 3
    /\ link_colors = <<GRAY_C, GRAY_B>>
    /\ links[2].color = GRAY_C /\ links[0].color = GRAY_C /\ links[1].color = GRAY_B
    /\ links[2].rb = links[0].ra

\* the group a returned reference stands for
Group(ref) ==
    CASE ref = "rolls" -> rolls
      [] ref = "links" -> links
      [] ref = "pins" -> pins

\* a construction that returned, called with add_subobjects = add
Constructed(add) ==
    /\ phase' = "built"
    /\ \E rr \in RollRadiusArgs, colors \in ColorPairs : GearChain_init(rr, colors, add)

\* a getter has just returned
GetterStep == req' # req /\ req'.call \in {"get_rolls", "get_links", "get_pins"}

\* C11: after construction with add_subobjects=True, and after add_subobjects(),
\* the composite holds exactly rollers, links, pins in this order, so that a
\* pass moves the rollers before links or pins read them; after construction
\* with add_subobjects=False it holds none of them; get_rolls, get_links and
\* get_pins return the fully built groups of rollers, links and pins and
\* change nothing
C11_PartsAndGetters ==
    [][ /\ Constructed(TRUE) => submobjects' = <<"rolls", "links", "pins">>
        /\ Constructed(FALSE) => submobjects' = <<>>
        /\ add_subobjects => submobjects' = <<"rolls", "links", "pins">>
        /\ (InPass("links") \/ InPass("pins")) /\ done' # done =>
              done >= 1 /\ submobjects[1] = "rolls"
        /\ GetterStep =>
              /\ req'.ret = (CASE req'.call = "get_rolls" -> "rolls"
                               [] req'.call = "get_links" -> "links"
                               [] req'.call = "get_pins" -> "pins")
              /\ DOMAIN Group(req'.ret) = 0 .. (z - 1)
              /\ <<rolls, links, pins, submobjects, gear>>'
                    = <<rolls, links, pins, submobjects, gear>> ]_vars

\* a chain built with add_subobjects=False whose links were fetched, then
\* attached and updated in a pass
C11_Witness ==
    /\ phase = "frame" /\ gear.angle = 3
    /\ req = [call |-> "get_links", ret |-> "links"]
    /\ submobjects = <<"rolls", "links", "pins">>
    /\ links[0].start = chain_pos(gear, z, 0).value

\* C12 as stated: every roller's radius is the roll_radius passed to the
\* constructor whenever one other than None is passed, and is the default
\* gear.m * pi / 4 only when roll_radius is None
C12_AsStated ==
    [][ \A rr \in RollRadiusArgs :
          (\E colors \in ColorPairs, add \in BOOLEAN : GearChain_init(rr, colors, add)) =>
             \A n \in DOMAIN rolls' :
                /\ rr[1] # None => rolls'[n].radius = rr
                /\ rolls'[n].radius = <<"m*pi/4", gear.m>> => rr[1] = None ]_vars

\* C13: the link-length check runs at construction only: no update pass
\* raises, also after the gear's parameters were changed so that a link is
\* as long as the gear's pitch or longer; the links are still put on their
\* rollers
C13_NoRevalidation ==
    /\ [][Exists => Exists' /\ err' = "none"]_vars
    /\ [](phase = "frame" =>
            \A i \in DOMAIN links :
                /\ links[i].start = chain_pos(gear, z, links[i].ra).value
                /\ links[i].end = chain_pos(gear, z, links[i].rb).value)

\* after a pass on a gear that gear_updater changed: the links are as long as
\* the pitch, which construction would have refused
C13_Witness ==
    /\ phase = "frame" /\ err = "none"
    /\ gear.rp = 2 /\ gear.z = 2 /\ gear.angle = 1
    /\ \A i \in DOMAIN links : ~ LinkAssert(links[i], gear)
    /\ Length4Sq(links[0]) = <<4 * gear.pitch * gear.pitch, 0>>

\* C14: the tooth count is captured at construction: whatever the gear
\* becomes afterwards, z and the numbers of rollers, links and pins stay what
\* they were, every updater keeps its index and its rollers, and no updater
\* raises the ValueError
C14_CapturedToothCount ==
    /\ [](Exists =>
            /\ err = "none"
            /\ DOMAIN rolls = 0 .. (z - 1)
            /\ DOMAIN links = 0 .. (z - 1)
            /\ DOMAIN pins = 0 .. (z - 1)
            /\ \A i \in 0 .. (z - 1) :
                  /\ rolls[i].nth = i
                  /\ links[i].ra = i /\ links[i].rb = Succ(i)
                  /\ pins[i].r = i
                  /\ ~ chain_pos(gear, z, rolls[i].nth).raised)
    /\ [][ /\ phase = "new" /\ phase' = "built" => z' = gear.z
           /\ Exists => Exists' /\ z' = z ]_vars

\* a chain of six after a pass on a gear that has two teeth by now
C14_Witness ==
    /\ phase = "frame" /\ z = 6 /\ gear.z = 2
    /\ Cardinality(DOMAIN rolls) = 6
    /\ rolls[5].center = chain_pos(gear, z, 5).value

====
